---------------------------- MODULE Spec2Model ----------------------------
(***************************************************************************)
(* Forward computations of the MHNfs modules                               *)
(* (fs_mol/external_repositories/mhnfs/mhnfs/modules.py):                  *)
(*   EncoderBlock.__init__, ContextModule.forward,                         *)
(*   CrossAttentionModule.forward and SimilarityModule.                    *)
(*                                                                         *)
(* Tensors are records [shape, data] with the data in row-major order, as  *)
(* a contiguous torch tensor holds it.  Tensor elements are extended       *)
(* rationals <<n, d>>: d > 0 is the number n/d in lowest terms, <<1, 0>>   *)
(* is +inf, <<-1, 0>> is -inf and <<0, 0>> is NaN, so that a division by   *)
(* zero gives what the floating-point division gives.  Rounding and        *)
(* overflow of float32 are not modelled: arithmetic on finite values is    *)
(* exact, and the inputs are drawn where torch.sqrt is exact.              *)
(***************************************************************************)
EXTENDS Integers, Sequences, FiniteSets, TLC

VARIABLES cfg, args, pc, ret, locals

vars == <<cfg, args, pc, ret, locals>>

(***************************************************************************)
(* Bounds of the model.                                                    *)
(***************************************************************************)
\* Largest number of embedding elements (over all embedding tensors) of a call.
MaxNumel == 5

\* Largest number of embedding elements of a ContextModule call: query, support
\* sets and context set together.
MaxContextNumel == 7

\* Largest cfg.model.transformer.activity_embedding_dim.
MaxActivityWidth == 2

\* Largest cfg.model.transformer.num_layers.
MaxLayers == 2

\* Largest cfg.model.encoder.number_hidden_layers.
MaxHiddenLayers == 2

\* The values an input embedding element is drawn from.
EmbeddingValues == {0, 2}

(***************************************************************************)
(* Scalars: extended rationals.                                            *)
(***************************************************************************)
Abs(x) == IF x < 0 THEN -x ELSE x

Sign(x) == IF x < 0 THEN -1 ELSE IF x > 0 THEN 1 ELSE 0

RECURSIVE Gcd(_, _)
Gcd(a, b) == IF b = 0 THEN a ELSE Gcd(b, a % b)

\* <<n, d>> in normal form: lowest terms and d > 0, or one of inf, -inf, NaN.
Rat(n, d) ==
    IF d = 0 THEN <<Sign(n), 0>>
    ELSE LET g == Gcd(Abs(n), Abs(d))
         IN  <<Sign(d) * (n \div g), Abs(d) \div g>>

Num(k) == <<k, 1>>

NaN == <<0, 0>>

IsFinite(x) == x[2] # 0

IsNaN(x) == x = NaN

RAdd(x, y) ==
    IF x[2] = 0 /\ y[2] = 0
    THEN (IF x = y THEN x ELSE NaN)
    ELSE Rat(x[1] * y[2] + y[1] * x[2], x[2] * y[2])

RMul(x, y) == Rat(x[1] * y[1], x[2] * y[2])

\* x / y; a division by zero is +-inf, and 0/0 is NaN.
RDiv(x, y) ==
    IF y[2] = 0
    THEN (IF x[2] = 0 \/ y = NaN THEN NaN ELSE Num(0))
    ELSE IF y[1] = 0 THEN Rat(x[1], 0)
    ELSE Rat(x[1] * y[2] * Sign(y[1]), x[2] * Abs(y[1]))

\* torch.sqrt on the perfect squares; -1 where the root is not rational.
ISqrt(n) == IF \E r \in 0..n : r * r = n THEN CHOOSE r \in 0..n : r * r = n ELSE -1

HasSqrt(x) == x[2] = 0 \/ (x[1] >= 0 /\ ISqrt(x[1]) >= 0 /\ ISqrt(x[2]) >= 0)

RSqrt(x) ==
    IF x[2] = 0 THEN (IF x[1] > 0 THEN x ELSE NaN)
    ELSE IF x[1] < 0 THEN NaN
    ELSE Rat(ISqrt(x[1]), ISqrt(x[2]))

\* x < y, of finite values.
RLess(x, y) == x[1] * y[2] < y[1] * x[2]

RECURSIVE RSum(_)
RSum(s) == IF Len(s) = 0 THEN Num(0) ELSE RAdd(RSum(SubSeq(s, 1, Len(s) - 1)), s[Len(s)])

(***************************************************************************)
(* Tensors: [shape |-> <<n1, .., nk>>, data |-> row-major sequence].       *)
(***************************************************************************)
\* The sequence <<f[1], .., f[n]>>, as a tuple of evaluated elements.
SeqOf(n, f) == SubSeq(f, 1, n)

\* The tensor of shape [B, S, D] whose element (b, s, d), 1-based, is f[b, s, d].
Mk3(B, S, D, f) ==
    [shape |-> <<B, S, D>>,
     data  |-> SeqOf(B * S * D,
                     [i \in 1..(B * S * D) |->
                        f[((i - 1) \div (S * D)) + 1,
                          (((i - 1) \div D) % S) + 1,
                          ((i - 1) % D) + 1]])]

\* The tensor of shape [B, S] whose element (b, s) is f[b, s].
Mk2(B, S, f) ==
    [shape |-> <<B, S>>,
     data  |-> SeqOf(B * S,
                     [i \in 1..(B * S) |-> f[((i - 1) \div S) + 1, ((i - 1) % S) + 1]])]

At3(t, b, s, d) == t.data[((b - 1) * t.shape[2] + (s - 1)) * t.shape[3] + d]

At2(t, b, s) == t.data[(b - 1) * t.shape[2] + s]

\* The vector t[b, s, :] as a sequence.
Row3(t, b, s) == SeqOf(t.shape[3], [d \in 1..t.shape[3] |-> At3(t, b, s, d)])

\* The dot product of two vectors of one length.
Dot(u, v) == RSum(SeqOf(Len(u), [k \in 1..Len(u) |-> RMul(u[k], v[k])]))

\* t.reshape(shape): the data stay as they lie, the shape changes.
Reshape(t, shape) == [shape |-> shape, data |-> t.data]

\* torch.cat((x, y), dim=1) of tensors [B, S1, D] and [B, S2, D].
Cat1(x, y) ==
    LET B == x.shape[1]
        S == x.shape[2] + y.shape[2]
        D == x.shape[3]
    IN  Mk3(B, S, D,
            [b \in 1..B, s \in 1..S, d \in 1..D |->
                IF s <= x.shape[2] THEN At3(x, b, s, d)
                ELSE At3(y, b, s - x.shape[2], d)])

\* torch.cat((x, y), dim=2) of tensors [B, S, D1] and [B, S, D2].
Cat2(x, y) ==
    LET B == x.shape[1]
        S == x.shape[2]
        D == x.shape[3] + y.shape[3]
    IN  Mk3(B, S, D,
            [b \in 1..B, s \in 1..S, d \in 1..D |->
                IF d <= x.shape[3] THEN At3(x, b, s, d)
                ELSE At3(y, b, s, d - x.shape[3])])

Min(a, b) == IF a < b THEN a ELSE b

Max(a, b) == IF a > b THEN a ELSE b

\* t[:, lo:hi, :] with Python's 0-based half-open bounds, clamped to the axis.
Slice1(t, lo, hi) ==
    LET l == Min(lo, t.shape[2])
        h == Max(l, Min(hi, t.shape[2]))
    IN  Mk3(t.shape[1], h - l, t.shape[3],
            [b \in 1..t.shape[1], s \in 1..(h - l), d \in 1..t.shape[3] |->
                At3(t, b, l + s, d)])

\* t[:, :, :hi], clamped to the axis.
Slice2(t, hi) ==
    LET D == Min(hi, t.shape[3])
    IN  Mk3(t.shape[1], t.shape[2], D,
            [b \in 1..t.shape[1], s \in 1..t.shape[2], d \in 1..D |-> At3(t, b, s, d)])

\* torch.unsqueeze(t[:, j, :], 1) for the 0-based index j: shape [B, 1, D].
Select1(t, j) ==
    Mk3(t.shape[1], 1, t.shape[3],
        [b \in 1..t.shape[1], s \in 1..1, d \in 1..t.shape[3] |-> At3(t, b, j + 1, d)])

\* x + y, elementwise, of two tensors of one shape.
TAdd(x, y) ==
    [shape |-> x.shape,
     data  |-> SeqOf(Len(x.data), [i \in 1..Len(x.data) |-> RAdd(x.data[i], y.data[i])])]

\* x * y, elementwise, of two tensors of one shape.
TMul(x, y) ==
    [shape |-> x.shape,
     data  |-> SeqOf(Len(x.data), [i \in 1..Len(x.data) |-> RMul(x.data[i], y.data[i])])]

\* torch.transpose(t, 1, 2) of a tensor [B, S, D]: shape [B, D, S].
Transpose12(t) ==
    Mk3(t.shape[1], t.shape[3], t.shape[2],
        [b \in 1..t.shape[1], d \in 1..t.shape[3], s \in 1..t.shape[2] |-> At3(t, b, s, d)])

\* x @ y of tensors [B, M, K] and [B, K, N]: shape [B, M, N].
MatMul(x, y) ==
    Mk3(x.shape[1], x.shape[2], y.shape[3],
        [b \in 1..x.shape[1], m \in 1..x.shape[2], n \in 1..y.shape[3] |->
            Dot(Row3(x, b, m), [k \in 1..x.shape[3] |-> At3(y, b, k, n)])])

\* t.sum(dim=2) of a tensor [B, S, D]: shape [B, S].
SumDim2(t) ==
    Mk2(t.shape[1], t.shape[2],
        [b \in 1..t.shape[1], s \in 1..t.shape[2] |-> RSum(Row3(t, b, s))])

(***************************************************************************)
(* The return state of a call.                                             *)
(***************************************************************************)
NoReturn == [status |-> "pending"]

Returned(v) == [status |-> "returned", value |-> v]

Raised(e) == [status |-> "raised", error |-> e]

NoLocals == [fn |-> "none"]

(***************************************************************************)
(* SimilarityModule                                                        *)
(***************************************************************************)
\* Mutant: no stabilizer in the scaling denominator.
Stabilizer_Zero == <<0, 1>>

\* torch.tensor(1e-8)
Stabilizer == <<1, 100000000>>

\* torch.unsqueeze(t.pow(2).sum(dim=2).sqrt(), 2) with t_div[t_div == 0] = 1,
\* of a tensor [B, S, D]: shape [B, S, 1].
L2Divisor(t) ==
    Mk3(t.shape[1], t.shape[2], 1,
        [b \in 1..(t.shape[1]), s \in 1..(t.shape[2]), d \in 1..(1) |->
            LET n == RSqrt(Dot(Row3(t, b, s), Row3(t, b, s)))
            IN  IF n = Num(0) THEN Num(1) ELSE n])

\* t / div of a tensor [B, S, D] and a divisor [B, S, 1], broadcast over dim 2.
DivBroadcast(t, div) ==
    Mk3(t.shape[1], t.shape[2], t.shape[3],
        [b \in 1..t.shape[1], s \in 1..t.shape[2], d \in 1..t.shape[3] |->
            RDiv(At3(t, b, s, d), At3(div, b, s, 1))])

\* The optional L2-norm of one embedding tensor.
L2Normalize(t) == DivBroadcast(t, L2Divisor(t))

\* (padding_mask.bool()).float().unsqueeze(1) of a mask [B, P]: shape [B, 1, P].
FloatMask(padding_mask) ==
    Mk3(padding_mask.shape[1], 1, padding_mask.shape[2],
        [b \in 1..padding_mask.shape[1], s \in 1..1, p \in 1..padding_mask.shape[2] |->
            IF At2(padding_mask, b, p) THEN Num(1) ELSE Num(0)])

\* Mutant: the similarities are summed without the padding mask.
MaskedSimilaritySums_NoMask(similarities, padding_mask) == SumDim2(similarities)

\* Mutant: the masked similarities are summed over dim 1 instead of dim 2.
MaskedSimilaritySums_Dim1(similarities, padding_mask) ==
    LET m == TMul(similarities, FloatMask(padding_mask))
    IN  Mk2(m.shape[1], m.shape[3],
            [b \in 1..m.shape[1], p \in 1..m.shape[3] |->
                RSum(SeqOf(m.shape[2], [j \in 1..m.shape[2] |-> At3(m, b, j, p)]))])

\* similarities * mask, then .sum(dim=2): shape [B, 1].
MaskedSimilaritySums(similarities, padding_mask) ==
    SumDim2(TMul(similarities, FloatMask(padding_mask)))

\* 1 / (2.0 * support_set_size.reshape(-1, 1) + stabilizer) * similarity_sums
ScaleByN(similarity_sums, support_set_size) ==
    Mk2(similarity_sums.shape[1], similarity_sums.shape[2],
        [b \in 1..(similarity_sums.shape[1]), j \in 1..(similarity_sums.shape[2]) |->
            RMul(RDiv(Num(1), RAdd(RMul(Num(2), Num(support_set_size.data[b])), Stabilizer)),
                 At2(similarity_sums, b, j))])

\* 1 / (2.0 * torch.sqrt(support_set_size.reshape(-1, 1).float()) + stabilizer)
\*   * similarity_sums
ScaleBySqrtN(similarity_sums, support_set_size) ==
    Mk2(similarity_sums.shape[1], similarity_sums.shape[2],
        [b \in 1..(similarity_sums.shape[1]), j \in 1..(similarity_sums.shape[2]) |->
            RMul(RDiv(Num(1),
                      RAdd(RMul(Num(2), RSqrt(Num(support_set_size.data[b]))), Stabilizer)),
                 At2(similarity_sums, b, j))])

\* The two scaling branches; any other policy leaves the sums as they are.
Scaling(similarity_sums, support_set_size, c) ==
    LET s1 == IF c.similarityModule.scaling = "1/N"
              THEN ScaleByN(similarity_sums, support_set_size)
              ELSE similarity_sums
    IN  IF c.similarityModule.scaling = "1/sqrt(N)"
        THEN ScaleBySqrtN(s1, support_set_size)
        ELSE s1

SimilarityModule(query_embedding, support_set_embeddings, padding_mask, support_set_size, c) ==
    LET q == IF c.similarityModule.l2Norm
             THEN L2Normalize(query_embedding) ELSE query_embedding
        s == IF c.similarityModule.l2Norm
             THEN L2Normalize(support_set_embeddings) ELSE support_set_embeddings
        similarities == MatMul(q, Transpose12(s))
    IN  Scaling(MaskedSimilaritySums(similarities, padding_mask), support_set_size, c)

(***************************************************************************)
(* Inputs.                                                                 *)
(***************************************************************************)
Scalars == {Num(v) : v \in EmbeddingValues}

\* The embedding tensors of one shape.
Embeddings(B, S, D) ==
    {[shape |-> <<B, S, D>>, data |-> f] : f \in [1..(B * S * D) -> Scalars]}

\* The padding masks of one shape: TRUE = real molecule, FALSE = padding.
PaddingMasks(B, P) == {[shape |-> <<B, P>>, data |-> f] : f \in [1..(B * P) -> BOOLEAN]}

\* The number of real molecules of batch entry b.
RealCount(mask, b) == Cardinality({p \in 1..mask.shape[2] : At2(mask, b, p)})

\* The support-set sizes that go with a mask: its count of real slots.
SizesOf(mask) == [shape |-> <<mask.shape[1]>>,
                  data  |-> [b \in 1..mask.shape[1] |-> RealCount(mask, b)]]

\* The norm of every row of t is rational.
ExactNorms(t) ==
    \A b \in 1..t.shape[1], s \in 1..t.shape[2] :
        HasSqrt(Dot(Row3(t, b, s), Row3(t, b, s)))

ScalingPolicies == {"1/N", "1/sqrt(N)", "none"}

SimilarityShapes ==
    {sh \in (1..MaxNumel) \X (0..MaxNumel) \X (1..MaxNumel) :
        sh[1] * (1 + sh[2]) * sh[3] <= MaxNumel}

InitSimilarity ==
    /\ pc = "call"
    /\ ret = NoReturn
    /\ locals = NoLocals
    /\ \E l2 \in BOOLEAN, sc \in ScalingPolicies :
          cfg = [similarityModule |-> [l2Norm |-> l2, scaling |-> sc]]
    /\ \E sh \in SimilarityShapes :
          \E q \in Embeddings(sh[1], 1, sh[3]), s \in Embeddings(sh[1], sh[2], sh[3]),
             m \in PaddingMasks(sh[1], sh[2]) :
             /\ cfg.similarityModule.l2Norm => ExactNorms(q) /\ ExactNorms(s)
             /\ cfg.similarityModule.scaling = "1/sqrt(N)" =>
                   \A b \in 1..sh[1] : ISqrt(RealCount(m, b)) >= 0
             /\ args = [fn |-> "SimilarityModule",
                        query_embedding |-> q,
                        support_set_embeddings |-> s,
                        padding_mask |-> m,
                        support_set_size |-> SizesOf(m)]

CallSimilarityModule ==
    /\ pc = "call"
    /\ args.fn = "SimilarityModule"
    /\ ret' = Returned(SimilarityModule(args.query_embedding, args.support_set_embeddings,
                                        args.padding_mask, args.support_set_size, cfg))
    /\ pc' = "done"
    /\ UNCHANGED <<cfg, args, locals>>

NextSimilarity == CallSimilarityModule

SpecSimilarity == InitSimilarity /\ [][NextSimilarity]_vars

(***************************************************************************)
(* Claims about SimilarityModule (checked under SpecSimilarity).           *)
(***************************************************************************)
SimilarityDone == pc = "done" /\ args.fn = "SimilarityModule"

\* t with the row t[b, s, :] replaced by the vector v.
WithRow(t, b, s, v) ==
    Mk3(t.shape[1], t.shape[2], t.shape[3],
        [b2 \in 1..t.shape[1], s2 \in 1..t.shape[2], d \in 1..t.shape[3] |->
            IF b2 = b /\ s2 = s THEN v[d] ELSE At3(t, b2, s2, d)])

\* The vectors a row of width D can be replaced by.
RowsOf(D) == [1..D -> Scalars]

\* The query and the support embeddings the dot products are taken of.
SimQuery ==
    IF cfg.similarityModule.l2Norm
    THEN L2Normalize(args.query_embedding) ELSE args.query_embedding

SimSupport ==
    IF cfg.similarityModule.l2Norm
    THEN L2Normalize(args.support_set_embeddings) ELSE args.support_set_embeddings

\* The real slots of batch entry b, in ascending order, below slot p.
RECURSIVE UnmaskedDots(_, _)
UnmaskedDots(b, p) ==
    IF p = 0 THEN <<>>
    ELSE IF At2(args.padding_mask, b, p)
         THEN Append(UnmaskedDots(b, p - 1), Dot(Row3(SimQuery, b, 1), Row3(SimSupport, b, p)))
         ELSE UnmaskedDots(b, p - 1)

ScaleFactor(N) ==
    IF cfg.similarityModule.scaling = "1/N"
    THEN RDiv(Num(1), RAdd(Num(2 * N), Stabilizer))
    ELSE RDiv(Num(1), RAdd(RMul(Num(2), RSqrt(Num(N))), Stabilizer))

\* The score of batch entry b when the support row (b, p) is replaced by v.
PerturbedScore(b, p, v) ==
    At2(SimilarityModule(args.query_embedding,
                         WithRow(args.support_set_embeddings, b, p, v),
                         args.padding_mask, args.support_set_size, cfg), b, 1)

\* C3: under "1/N" (resp. "1/sqrt(N)"), for a batch entry with N real slots and
\* support_set_size N, the score is the sum of the dot products over the unmasked
\* slots times 1/(2N+eps) (resp. 1/(2*sqrt(N)+eps)), and replacing the embedding
\* of a padded slot leaves the score unchanged.
C3_MaskedSumScaled ==
    (SimilarityDone /\ cfg.similarityModule.scaling \in {"1/N", "1/sqrt(N)"}) =>
        \A b \in 1..args.padding_mask.shape[1] :
            LET N == RealCount(args.padding_mask, b)
            IN  args.support_set_size.data[b] = N =>
                  /\ ret.status = "returned"
                  /\ At2(ret.value, b, 1) =
                        RMul(ScaleFactor(N),
                             RSum(UnmaskedDots(b, args.padding_mask.shape[2])))
                  /\ \A p \in 1..args.padding_mask.shape[2] :
                        ~At2(args.padding_mask, b, p) =>
                           \A v \in RowsOf(args.support_set_embeddings.shape[3]) :
                              PerturbedScore(b, p, v) = At2(ret.value, b, 1)

\* A call under "1/N" with a real slot and a padded slot whose dot product with
\* the query is not zero, and a score that is not zero.
C3_Witness ==
    /\ SimilarityDone
    /\ cfg.similarityModule.scaling = "1/N"
    /\ \E b \in 1..args.padding_mask.shape[1] :
          /\ RealCount(args.padding_mask, b) >= 1
          /\ At2(ret.value, b, 1) # Num(0)
          /\ \E p \in 1..args.padding_mask.shape[2] :
                /\ ~At2(args.padding_mask, b, p)
                /\ Dot(Row3(SimQuery, b, 1), Row3(SimSupport, b, p)) # Num(0)

\* C4 (as claimed): with a scaling policy other than "1/N" and "1/sqrt(N)" no
\* score is returned.
C4_UnknownScalingFails ==
    (SimilarityDone /\ cfg.similarityModule.scaling \notin {"1/N", "1/sqrt(N)"}) =>
        ret.status = "raised"

\* C7: for a batch entry with support_set_size 0 and a mask that is all padding
\* the score is finite and 0, under both scaling policies, with and without L2.
C7_DegenerateSupportIsZero ==
    (SimilarityDone /\ cfg.similarityModule.scaling \in {"1/N", "1/sqrt(N)"}) =>
        \A b \in 1..args.padding_mask.shape[1] :
            (args.support_set_size.data[b] = 0 /\ RealCount(args.padding_mask, b) = 0) =>
                /\ ret.status = "returned"
                /\ IsFinite(At2(ret.value, b, 1))
                /\ At2(ret.value, b, 1) = Num(0)

\* A call with L2 normalization whose batch entry has no real molecule and a
\* padded slot whose dot product with the query is not zero.
C7_Witness ==
    /\ SimilarityDone
    /\ cfg.similarityModule.l2Norm
    /\ cfg.similarityModule.scaling = "1/sqrt(N)"
    /\ \E b \in 1..args.padding_mask.shape[1] :
          /\ args.support_set_size.data[b] = 0
          /\ RealCount(args.padding_mask, b) = 0
          /\ \E p \in 1..args.padding_mask.shape[2] :
                Dot(Row3(SimQuery, b, 1), Row3(SimSupport, b, p)) # Num(0)

\* C8 (as claimed): the score tensor has shape [B].
C8_ShapeIsB ==
    SimilarityDone =>
        (ret.status = "returned" /\ ret.value.shape = <<args.query_embedding.shape[1]>>)

\* C8 (amended): the score tensor has shape [B, 1], one scalar per batch entry.
C8_ShapeIsBx1 ==
    SimilarityDone =>
        /\ ret.status = "returned"
        /\ ret.value.shape = <<args.query_embedding.shape[1], 1>>
        /\ Len(ret.value.data) = args.query_embedding.shape[1]

\* A call with two batch entries and a padded support set.
C8_Witness ==
    /\ SimilarityDone
    /\ args.query_embedding.shape[1] = 2
    /\ args.support_set_embeddings.shape[2] >= 1
    /\ ret.status = "returned"

(***************************************************************************)
(* EncoderBlock.__init__                                                   *)
(***************************************************************************)
activation_function_mapping == [relu |-> "ReLU", selu |-> "SELU", sigmoid |-> "Sigmoid"]

dropout_mapping == [relu |-> "Dropout", selu |-> "AlphaDropout"]

\* The activation names init_weights knows.
InitWeightsNames == {"relu", "selu", "sigmoid", "linear"}

\* The module dropout_mapping[activation](p).
DropoutLayer(activation, p) == [kind |-> dropout_mapping[activation], p |-> p]

Linear(in_features, out_features) == [in_features |-> in_features, out_features |-> out_features]

\* EncoderBlock(cfg): the constructed module, or the KeyError of the first failing
\* lookup.
EncoderBlock_init(c) ==
    LET e == c.encoder
    IN  IF e.activation \notin DOMAIN dropout_mapping
        THEN Raised("KeyError")
        ELSE IF e.activation \notin DOMAIN activation_function_mapping
        THEN Raised("KeyError")
        ELSE IF e.activation \notin InitWeightsNames
        THEN Raised("KeyError")
        ELSE Returned(
          [dropout |-> DropoutLayer(e.activation, e.regularization.input_dropout),
           fc      |-> Linear(e.input_dim, e.number_hidden_neurons),
           act     |-> activation_function_mapping[e.activation],
           hidden_dropout_layers |->
               SeqOf(e.number_hidden_layers,
                     [i \in 1..e.number_hidden_layers |->
                        DropoutLayer(e.activation, e.regularization.dropout)]),
           hidden_linear_layers |->
               SeqOf(e.number_hidden_layers,
                     [i \in 1..e.number_hidden_layers |->
                        Linear(e.number_hidden_neurons, e.number_hidden_neurons)]),
           hidden_activations |->
               SeqOf(e.number_hidden_layers,
                     [i \in 1..e.number_hidden_layers |->
                        activation_function_mapping[e.activation]]),
           dropout_o |-> DropoutLayer(e.activation, e.regularization.dropout),
           fc_o      |-> Linear(e.number_hidden_neurons, c.associationSpace_dim),
           act_o     |-> activation_function_mapping[e.activation]])

\* The activation names a configuration may hold: the enumerated set and one more.
ActivationNames == {"relu", "selu", "sigmoid", "tanh"}

\* Dropout rates, as rationals.
DropoutRates == {Rat(0, 1), Rat(1, 10), Rat(1, 2)}

LayerWidths == {2, 3}

InitEncoder ==
    /\ pc = "call"
    /\ ret = NoReturn
    /\ locals = NoLocals
    /\ args = [fn |-> "EncoderBlock.__init__"]
    /\ \E a \in ActivationNames, n \in 0..MaxHiddenLayers, w \in LayerWidths,
          p0 \in DropoutRates, p1 \in DropoutRates :
          cfg = [encoder |-> [activation |-> a,
                              input_dim |-> 4,
                              number_hidden_neurons |-> w,
                              number_hidden_layers |-> n,
                              regularization |-> [input_dropout |-> p0, dropout |-> p1]],
                 associationSpace_dim |-> 2]

CallEncoderBlockInit ==
    /\ pc = "call"
    /\ args.fn = "EncoderBlock.__init__"
    /\ ret' = EncoderBlock_init(cfg)
    /\ pc' = "done"
    /\ UNCHANGED <<cfg, args, locals>>

NextEncoder == CallEncoderBlockInit

SpecEncoder == InitEncoder /\ [][NextEncoder]_vars

EncoderDone == pc = "done" /\ args.fn = "EncoderBlock.__init__"

\* The regularization steps of a constructed encoder, input to output.
DropoutKinds(m) ==
    {m.dropout.kind, m.dropout_o.kind}
        \cup {m.hidden_dropout_layers[i].kind : i \in 1..Len(m.hidden_dropout_layers)}

\* C5 (as claimed): construction succeeds for relu, selu and sigmoid, with ordinary
\* dropout for relu and sigmoid and alpha dropout for selu, and fails with a lookup
\* failure for any other activation name.
C5_ConstructionByActivation ==
    EncoderDone =>
        IF cfg.encoder.activation \in {"relu", "selu", "sigmoid"}
        THEN /\ ret.status = "returned"
             /\ DropoutKinds(ret.value) =
                   {IF cfg.encoder.activation = "selu" THEN "AlphaDropout" ELSE "Dropout"}
        ELSE ret = Raised("KeyError")

(***************************************************************************)
(* ContextModule.forward                                                   *)
(***************************************************************************)
\* The stored pattern a state pattern is associated with: the first one of the
\* largest dot product with it.
Associated(stored, x) ==
    CHOOSE k \in 1..stored.shape[2] :
        /\ \A j \in 1..stored.shape[2] :
              ~RLess(Dot(x, Row3(stored, 1, k)), Dot(x, Row3(stored, 1, j)))
        /\ \A j \in 1..(k - 1) : RLess(Dot(x, Row3(stored, 1, j)), Dot(x, Row3(stored, 1, k)))

\* self.hopfield((stored_pattern, state_pattern, pattern_projection)) of tensors
\* [1, C, D], [1, L, D] and [1, C, D]: for every state pattern the projection of
\* the stored pattern associated with it; shape [1, L, D].
Hopfield(stored_pattern, state_pattern, pattern_projection) ==
    Mk3(1, state_pattern.shape[2], state_pattern.shape[3],
        [b \in 1..1, l \in 1..state_pattern.shape[2], d \in 1..state_pattern.shape[3] |->
            At3(pattern_projection, 1,
                Associated(stored_pattern, Row3(state_pattern, 1, l)), d)])

\* torch.cat((query_embedding, support_actives_embedding,
\*            support_inactives_embedding), dim=1)
StackSets(query_embedding, support_actives_embedding, support_inactives_embedding) ==
    Cat1(Cat1(query_embedding, support_actives_embedding), support_inactives_embedding)

\* s.reshape(1, s.shape[0] * s.shape[1], s.shape[2])
Flatten(s) == Reshape(s, <<1, s.shape[1] * s.shape[2], s.shape[3]>>)

\* s_updated.reshape(s.shape[0], s.shape[1], s.shape[2])
Unflatten(s_updated, s) == Reshape(s_updated, s.shape)

\* Mutant: the actives are taken from set position 0 on.
SplitSets_OffByOne(s_updated_inputShape, padding_size_actives) ==
    [query_embedding |-> Select1(s_updated_inputShape, 0),
     support_actives_embedding |-> Slice1(s_updated_inputShape, 0, padding_size_actives),
     support_inactives_embedding |->
         Slice1(s_updated_inputShape, padding_size_actives + 1, s_updated_inputShape.shape[2])]

\* The query at set position 0, the actives at 1 .. padding_size_actives, the
\* inactives after them.
SplitSets(s_updated_inputShape, padding_size_actives) ==
    [query_embedding |-> Select1(s_updated_inputShape, 0),
     support_actives_embedding |-> Slice1(s_updated_inputShape, 1, padding_size_actives + 1),
     support_inactives_embedding |->
         Slice1(s_updated_inputShape, padding_size_actives + 1, s_updated_inputShape.shape[2])]

\* Mutant: the flattened batch itself is the memory the retrieval reads.
Retrieval_FromBatch(s_flattend, context_set_embedding) ==
    Hopfield(s_flattend, s_flattend, s_flattend)

\* self.hopfield((context_set_embedding, s_flattend, context_set_embedding))
Retrieval(s_flattend, context_set_embedding) ==
    Hopfield(context_set_embedding, s_flattend, context_set_embedding)

ContextModule_forward(query_embedding, support_actives_embedding, support_inactives_embedding, context_set_embedding) ==
    LET s == StackSets(query_embedding, support_actives_embedding,
                       support_inactives_embedding)
        s_flattend == Flatten(s)
        s_h == Retrieval(s_flattend, context_set_embedding)
        s_updated == TAdd(s_flattend, s_h)
    IN  SplitSets(Unflatten(s_updated, s), support_actives_embedding.shape[2])

\* <<B, P_a, P_i, D, C>>
ContextShapes ==
    {sh \in (1..MaxContextNumel) \X (0..MaxContextNumel) \X (0..MaxContextNumel)
              \X (1..MaxContextNumel) \X (1..MaxContextNumel) :
        (sh[1] * (1 + sh[2] + sh[3]) + sh[5]) * sh[4] <= MaxContextNumel}

InitContext ==
    /\ pc = "call"
    /\ ret = NoReturn
    /\ locals = NoLocals
    /\ cfg = [hopfield |-> [dropout |-> Num(0)]]
    /\ \E sh \in ContextShapes :
          \E q \in Embeddings(sh[1], 1, sh[4]), a \in Embeddings(sh[1], sh[2], sh[4]),
             i \in Embeddings(sh[1], sh[3], sh[4]), c \in Embeddings(1, sh[5], sh[4]) :
             args = [fn |-> "ContextModule.forward",
                     query_embedding |-> q,
                     support_actives_embedding |-> a,
                     support_inactives_embedding |-> i,
                     context_set_embedding |-> c]

CallContextModuleForward ==
    /\ pc = "call"
    /\ args.fn = "ContextModule.forward"
    /\ ret' = Returned(ContextModule_forward(args.query_embedding,
                                             args.support_actives_embedding,
                                             args.support_inactives_embedding,
                                             args.context_set_embedding))
    /\ locals' = [fn |-> "ContextModule.forward",
                  s_flattend |-> Flatten(StackSets(args.query_embedding,
                                                   args.support_actives_embedding,
                                                   args.support_inactives_embedding))]
    /\ pc' = "done"
    /\ UNCHANGED <<cfg, args>>

NextContext == CallContextModuleForward

SpecContext == InitContext /\ [][NextContext]_vars

(***************************************************************************)
(* Claims about ContextModule.forward (checked under SpecContext).         *)
(***************************************************************************)
ContextDone == pc = "done" /\ args.fn = "ContextModule.forward"

CtxB == args.query_embedding.shape[1]

CtxPa == args.support_actives_embedding.shape[2]

CtxPi == args.support_inactives_embedding.shape[2]

CtxD == args.query_embedding.shape[3]

\* The molecule at set position j (0 = query, then the actives, then the
\* inactives) of batch entry b, in a triple of query, actives and inactives.
MoleculeAt(t, b, j) ==
    IF j = 0 THEN Row3(t.query_embedding, b, 1)
    ELSE IF j <= t.support_actives_embedding.shape[2]
         THEN Row3(t.support_actives_embedding, b, j)
         ELSE Row3(t.support_inactives_embedding, b,
                   j - t.support_actives_embedding.shape[2])

\* The triple t with the molecule at set position j of batch entry b replaced by v.
WithMolecule(t, b, j, v) ==
    IF j = 0 THEN [t EXCEPT !.query_embedding = WithRow(t.query_embedding, b, 1, v)]
    ELSE IF j <= t.support_actives_embedding.shape[2]
         THEN [t EXCEPT !.support_actives_embedding =
                            WithRow(t.support_actives_embedding, b, j, v)]
         ELSE [t EXCEPT !.support_inactives_embedding =
                            WithRow(t.support_inactives_embedding, b,
                                    j - t.support_actives_embedding.shape[2], v)]

\* Batch entry b of t alone: shape [1, S, D].
Entry(t, b) ==
    Mk3(1, t.shape[2], t.shape[3],
        [e \in 1..1, s \in 1..t.shape[2], d \in 1..t.shape[3] |-> At3(t, b, s, d)])

\* The embedding x after the retrieval from the context set of the call and the
\* skip connection.
Updated(x) ==
    LET state == [shape |-> <<1, 1, Len(x)>>, data |-> x]
    IN  Row3(TAdd(state, Hopfield(args.context_set_embedding, state,
                                  args.context_set_embedding)), 1, 1)

ForwardOn(t) ==
    ContextModule_forward(t.query_embedding, t.support_actives_embedding,
                          t.support_inactives_embedding, args.context_set_embedding)

\* C6: the molecule at set position j of batch entry b lies at the flattened index
\* b*(1+P_a+P_i)+j; the returned query, k-th active and k-th inactive of entry b
\* are the updated input query, k-th active and k-th inactive of entry b; the
\* returned shapes are [B,1,D], [B,P_a,D] and [B,P_i,D].
C6_FlattenUnflattenRoundTrip ==
    ContextDone =>
        /\ ret.status = "returned"
        /\ locals.s_flattend.shape = <<1, CtxB * (1 + CtxPa + CtxPi), CtxD>>
        /\ \A b \in 0..(CtxB - 1), j \in 0..(CtxPa + CtxPi) :
              /\ Row3(locals.s_flattend, 1, b * (1 + CtxPa + CtxPi) + j + 1)
                    = MoleculeAt(args, b + 1, j)
              /\ MoleculeAt(ret.value, b + 1, j) = Updated(MoleculeAt(args, b + 1, j))
        /\ ret.value.query_embedding.shape = <<CtxB, 1, CtxD>>
        /\ ret.value.support_actives_embedding.shape = <<CtxB, CtxPa, CtxD>>
        /\ ret.value.support_inactives_embedding.shape = <<CtxB, CtxPi, CtxD>>

\* A call with two batch entries, an active and an inactive each, whose updated
\* molecules differ between the roles and between the entries.
C6_Witness ==
    /\ ContextDone
    /\ CtxB = 2 /\ CtxPa = 1 /\ CtxPi = 1
    /\ MoleculeAt(ret.value, 1, 1) # MoleculeAt(ret.value, 1, 2)
    /\ MoleculeAt(ret.value, 1, 1) # MoleculeAt(ret.value, 2, 1)
    /\ MoleculeAt(ret.value, 2, 0) # MoleculeAt(ret.value, 2, 1)

\* C10: the returned embedding of the molecule at set position j of batch entry b
\* is unchanged when the embedding of any other molecule, of any batch entry, is
\* replaced, and equals what the retrieval for batch entry b alone returns.
C10_RetrievalDoesNotMixTasks ==
    ContextDone =>
        /\ \A b2 \in 1..CtxB, j2 \in 0..(CtxPa + CtxPi), v \in RowsOf(CtxD) :
              LET out == ForwardOn(WithMolecule(args, b2, j2, v))
              IN  \A b \in 1..CtxB, j \in 0..(CtxPa + CtxPi) :
                      (<<b, j>> # <<b2, j2>>) =>
                          MoleculeAt(out, b, j) = MoleculeAt(ret.value, b, j)
        /\ \A b \in 1..CtxB :
              LET alone == ForwardOn(
                      [query_embedding |-> Entry(args.query_embedding, b),
                       support_actives_embedding |->
                           Entry(args.support_actives_embedding, b),
                       support_inactives_embedding |->
                           Entry(args.support_inactives_embedding, b)])
              IN  \A j \in 0..(CtxPa + CtxPi) :
                      MoleculeAt(alone, 1, j) = MoleculeAt(ret.value, b, j)

\* A call with two batch entries with support molecules and a context set of two
\* different patterns, in which a molecule is changed by the retrieval.
C10_Witness ==
    /\ ContextDone
    /\ CtxB = 2 /\ CtxPa + CtxPi >= 1
    /\ args.context_set_embedding.shape[2] = 2
    /\ Row3(args.context_set_embedding, 1, 1) # Row3(args.context_set_embedding, 1, 2)
    /\ \E j \in 0..(CtxPa + CtxPi) : MoleculeAt(ret.value, 2, j) # MoleculeAt(args, 2, j)

(***************************************************************************)
(* CrossAttentionModule.forward                                            *)
(***************************************************************************)
\* The tensor of the shape of t filled with the number k (torch.zeros_like,
\* torch.ones_like and (-1.0) * torch.ones_like).
FullLike(t, k) ==
    [shape |-> t.shape, data |-> SeqOf(Len(t.data), [i \in 1..Len(t.data) |-> Num(k)])]

\* torch.cat([t, <k>_like(t[:, :, :activity_embedding_dim])], dim=2)
WithActivityEncoding(t, k, activity_embedding_dim) ==
    Cat2(t, FullLike(Slice2(t, activity_embedding_dim), k))

\* torch.cat([<False column>, support_actives_mask, support_inactives_mask],
\*           dim=1).bool(): shape [B, 1 + P_a + P_i].
KeyPaddingMask(support_actives_mask, support_inactives_mask) ==
    Mk2(support_actives_mask.shape[1],
        1 + support_actives_mask.shape[2] + support_inactives_mask.shape[2],
        [b \in 1..support_actives_mask.shape[1],
         j \in 1..(1 + support_actives_mask.shape[2] + support_inactives_mask.shape[2]) |->
            IF j = 1 THEN FALSE
            ELSE IF j <= 1 + support_actives_mask.shape[2]
                 THEN At2(support_actives_mask, b, j - 1)
                 ELSE At2(support_inactives_mask, b,
                          j - 1 - support_actives_mask.shape[2])])

\* The positions of batch entry b a key-padding mask lets attend: those it does
\* not mark TRUE.
Attendable(padding_mask, b) ==
    {k \in 1..padding_mask.shape[2] : ~At2(padding_mask, b, k)}

RECURSIVE SetSum(_, _, _, _)
\* The sum of x[b, k, d] over the positions k of the set K.
SetSum(x, b, K, d) ==
    IF K = {} THEN Num(0)
    ELSE LET k == CHOOSE k \in K : TRUE
         IN  RAdd(At3(x, b, k, d), SetSum(x, b, K \ {k}, d))

\* One encoder layer on x [B, S, E]: every position takes, on top of its own
\* value, the mean of the values at the positions the key-padding mask lets
\* attend (an attention of uniform weights over the keys that are not masked).
EncoderLayer(x, padding_mask) ==
    Mk3(x.shape[1], x.shape[2], x.shape[3],
        [b \in 1..x.shape[1], j \in 1..x.shape[2], d \in 1..x.shape[3] |->
            RAdd(At3(x, b, j, d),
                 RDiv(SetSum(x, b, Attendable(padding_mask, b), d),
                      Num(Cardinality(Attendable(padding_mask, b)))))])

RECURSIVE EncoderLayers(_, _, _)
EncoderLayers(x, padding_mask, n) ==
    IF n = 0 THEN x ELSE EncoderLayer(EncoderLayers(x, padding_mask, n - 1), padding_mask)

\* self.transformer(s, src_key_padding_mask=padding_mask), for s in the layout
\* [B, S, E] (the two transposes around the call cancel): the stack of num_layers
\* layers, or the failure of a feature width other than d_model.
Transformer(s, padding_mask, c) ==
    IF s.shape[3] # c.associationSpace_dim + c.transformer.activity_embedding_dim
    THEN Raised("AssertionError")
    ELSE Returned(EncoderLayers(s, padding_mask, c.transformer.num_layers))

\* The sequence of query, actives and inactives with their activity encodings.
CrossSequence(query_embedding, support_actives_embedding, support_inactives_embedding, c) ==
    StackSets(
        WithActivityEncoding(query_embedding, 0, c.transformer.activity_embedding_dim),
        WithActivityEncoding(support_actives_embedding, 1,
                             c.transformer.activity_embedding_dim),
        WithActivityEncoding(support_inactives_embedding, -1,
                             c.transformer.activity_embedding_dim))

\* s_updated split at the role boundaries, the columns from embedding_dim on cut.
SplitCross(s_updated, padding_size_actives, embedding_dim) ==
    LET t == SplitSets(s_updated, padding_size_actives)
    IN  [query_embedding |-> Slice2(t.query_embedding, embedding_dim),
         support_actives_embedding |-> Slice2(t.support_actives_embedding, embedding_dim),
         support_inactives_embedding |->
             Slice2(t.support_inactives_embedding, embedding_dim)]

CrossAttentionModule_forward(query_embedding, support_actives_embedding, support_inactives_embedding, support_actives_mask, support_inactives_mask, c) ==
    LET embedding_dim == support_actives_embedding.shape[3]
        s == CrossSequence(query_embedding, support_actives_embedding,
                           support_inactives_embedding, c)
        padding_mask == KeyPaddingMask(support_actives_mask, support_inactives_mask)
        s_h == Transformer(s, padding_mask, c)
    IN  IF s_h.status = "raised" THEN s_h
        ELSE Returned(SplitCross(TAdd(s, s_h.value),
                                 support_actives_embedding.shape[2], embedding_dim))

\* <<B, P_a, P_i, D>>
CrossShapes ==
    {sh \in (1..MaxNumel) \X (0..MaxNumel) \X (0..MaxNumel) \X (1..MaxNumel) :
        sh[1] * (1 + sh[2] + sh[3]) * sh[4] <= MaxNumel}

InitCrossAttention ==
    /\ pc = "call"
    /\ ret = NoReturn
    /\ locals = NoLocals
    /\ \E sh \in CrossShapes :
          /\ \E w \in 0..MaxActivityWidth, n \in 1..MaxLayers :
                cfg = [associationSpace_dim |-> sh[4],
                       transformer |-> [activity_embedding_dim |-> w,
                                        num_layers |-> n,
                                        dropout |-> Num(0)]]
          /\ \E q \in Embeddings(sh[1], 1, sh[4]), a \in Embeddings(sh[1], sh[2], sh[4]),
                i \in Embeddings(sh[1], sh[3], sh[4]),
                ma \in PaddingMasks(sh[1], sh[2]), mi \in PaddingMasks(sh[1], sh[3]) :
                args = [fn |-> "CrossAttentionModule.forward",
                        query_embedding |-> q,
                        support_actives_embedding |-> a,
                        support_inactives_embedding |-> i,
                        support_actives_mask |-> ma,
                        support_inactives_mask |-> mi]

CallCrossAttentionModuleForward ==
    /\ pc = "call"
    /\ args.fn = "CrossAttentionModule.forward"
    /\ ret' = CrossAttentionModule_forward(args.query_embedding,
                                           args.support_actives_embedding,
                                           args.support_inactives_embedding,
                                           args.support_actives_mask,
                                           args.support_inactives_mask, cfg)
    /\ locals' = [fn |-> "CrossAttentionModule.forward",
                  s |-> CrossSequence(args.query_embedding, args.support_actives_embedding,
                                      args.support_inactives_embedding, cfg),
                  padding_mask |-> KeyPaddingMask(args.support_actives_mask,
                                                  args.support_inactives_mask)]
    /\ pc' = "done"
    /\ UNCHANGED <<cfg, args>>

NextCrossAttention == CallCrossAttentionModuleForward

SpecCrossAttention == InitCrossAttention /\ [][NextCrossAttention]_vars

(***************************************************************************)
(* Claims about CrossAttentionModule.forward (checked under                *)
(* SpecCrossAttention).                                                    *)
(***************************************************************************)
CrossDone == pc = "done" /\ args.fn = "CrossAttentionModule.forward"

\* The input padding mask at set position j >= 1 of batch entry b: TRUE = real
\* molecule, FALSE = padding.
IsReal(b, j) ==
    IF j <= CtxPa THEN At2(args.support_actives_mask, b, j)
    ELSE At2(args.support_inactives_mask, b, j - CtxPa)

CrossForwardOn(t) ==
    CrossAttentionModule_forward(t.query_embedding, t.support_actives_embedding,
                                 t.support_inactives_embedding,
                                 args.support_actives_mask, args.support_inactives_mask, cfg)

\* C1 (as claimed): replacing the embedding of a support slot the mask marks as
\* padding, the masks unchanged, changes the returned embedding neither at the
\* query position nor at any non-padded support position of the batch entry.
C1_PaddingInvariance ==
    (CrossDone /\ ret.status = "returned") =>
        \A b \in 1..CtxB, p \in 1..(CtxPa + CtxPi), v \in RowsOf(CtxD) :
            ~IsReal(b, p) =>
                LET out == CrossForwardOn(WithMolecule(args, b, p, v))
                IN  /\ out.status = "returned"
                    /\ \A j \in 0..(CtxPa + CtxPi) :
                          (j = 0 \/ IsReal(b, j)) =>
                              MoleculeAt(out.value, b, j) = MoleculeAt(ret.value, b, j)

\* C2 (as claimed): the key-padding mask handed to the attention stack has shape
\* [B, 1+P_a+P_i], leaves position 0 attendable, and marks a support position as
\* masked exactly when the input padding mask says padding.
C2_KeyPaddingMask ==
    CrossDone =>
        /\ locals.padding_mask.shape = <<CtxB, 1 + CtxPa + CtxPi>>
        /\ \A b \in 1..CtxB :
              /\ ~At2(locals.padding_mask, b, 1)
              /\ \A p \in 1..(CtxPa + CtxPi) :
                    At2(locals.padding_mask, b, 1 + p) <=> ~IsReal(b, p)

\* The activity encoding of set position j: 0 for the query, 1 for an active,
\* -1 for an inactive.
ActivityCode(j) == IF j = 0 THEN Num(0) ELSE IF j <= CtxPa THEN Num(1) ELSE Num(-1)

\* C9 (as claimed): for every activity_width >= 0, also above D, exactly
\* activity_width columns are appended (0 for the query, +1 for the actives, -1 for
\* the inactives), the sequence fed to the attention stack has width
\* D + activity_width, and the returned query, actives and inactives have the
\* shapes [B,1,D], [B,P_a,D] and [B,P_i,D].
C9_ActivityEncoding ==
    CrossDone =>
        /\ locals.s.shape =
              <<CtxB, 1 + CtxPa + CtxPi, CtxD + cfg.transformer.activity_embedding_dim>>
        /\ \A b \in 1..CtxB, j \in 0..(CtxPa + CtxPi), d \in 1..locals.s.shape[3] :
              At3(locals.s, b, j + 1, d) =
                  IF d <= CtxD THEN MoleculeAt(args, b, j)[d] ELSE ActivityCode(j)
        /\ ret.status = "returned"
        /\ ret.value.query_embedding.shape = <<CtxB, 1, CtxD>>
        /\ ret.value.support_actives_embedding.shape = <<CtxB, CtxPa, CtxD>>
        /\ ret.value.support_inactives_embedding.shape = <<CtxB, CtxPi, CtxD>>

=============================================================================
